---- MODULE Spec2Model ----
(***************************************************************************)
(* Items API (server.py): an in-memory registry `items` behind six HTTP    *)
(* routes.  JSON values are tagged tuples, pydantic models are records     *)
(* with a class name, their field data and the set of fields that were     *)
(* given, and every handler is an operator from the registry and the       *)
(* request to the new registry and the value the handler returns.          *)
(***************************************************************************)
EXTENDS Integers, Sequences, FiniteSets, TLC

VARIABLES
    items,      \* the module-level dict: item_id -> encoded item
    last,       \* the request handled last and the response it was given
    live,       \* history: the ids created with success and not deleted since
    arrived,    \* overlapping requests: client -> request accepted, handler not yet run
    start,      \* overlapping requests: the registry when the first of them was accepted
    handled     \* overlapping requests: request and response, in the order the handlers ran

vars == <<items, last, live, arrived, start, handled>>

----------------------------------------------------------------------------
(* Bounds and sample domains of the request inputs. *)

MaxTags == 1
NumClients == 2

Ids == {"soda", "cola"}
Names == {"Soda"}
Descriptions == {"A tasty, sugary drink."}
Prices == {99, 150}                      \* in cents: 0.99, 1.50
TagNames == {"drink"}

----------------------------------------------------------------------------
(* JSON values. *)

None == <<"null">>
Str(s) == <<"str", s>>
Num(n) == <<"num", n>>
List(l) == <<"list", l>>

Fields == {"name", "description", "price", "tags"}

FieldType(f) ==
    CASE f = "name" -> "str"
      [] f = "description" -> "str"
      [] f = "price" -> "num"
      [] f = "tags" -> "list"

FieldValues(f) ==
    CASE f = "name" -> {Str(s) : s \in Names}
      [] f = "description" -> {Str(s) : s \in Descriptions}
      [] f = "price" -> {Num(n) : n \in Prices}
      [] f = "tags" -> {List(l) : l \in UNION {[1..n -> TagNames] : n \in 0..MaxTags}}

\* Request bodies that pass the validation of Item: all four fields, typed.
ItemBodies ==
    {[name |-> n, description |-> d, price |-> p, tags |-> t] :
        n \in FieldValues("name"), d \in FieldValues("description"),
        p \in FieldValues("price"), t \in FieldValues("tags")}

\* A field a request body does not mention.
Unset == <<"unset">>

PartialValues(f) == FieldValues(f) \cup {None, Unset}

\* Request bodies that pass the validation of PartialItem: any subset of the
\* fields, each given field typed or null.
PartialItemBodies ==
    {LET full == [name |-> n, description |-> d, price |-> p, tags |-> t]
     IN  [f \in {g \in Fields : full[g] # Unset} |-> full[f]] :
        n \in PartialValues("name"), d \in PartialValues("description"),
        p \in PartialValues("price"), t \in PartialValues("tags")}

----------------------------------------------------------------------------
(* pydantic models and the encoder. *)

\* Item's validation: every field present, non-null and of its declared type.
ItemValid(d) == \A f \in Fields : f \in DOMAIN d /\ d[f][1] = FieldType(f)

Item(d) == [cls |-> "Item", data |-> [f \in Fields |-> d[f]], fields_set |-> Fields]

PartialItem(d) ==
    [cls |-> "PartialItem",
     data |-> [f \in Fields |-> IF f \in DOMAIN d THEN d[f] ELSE None],
     fields_set |-> DOMAIN d]

IsModel(obj) == "cls" \in DOMAIN obj

jsonable_encoder(obj) ==
    IF IsModel(obj) THEN [f \in Fields |-> obj.data[f]]
    ELSE [k \in DOMAIN obj |-> obj[k]]

\* model.dict(exclude_unset=True)
dict_exclude_unset(m) == [f \in m.fields_set |-> m.data[f]]

\* model.copy(update=...): no validation of the updated values
copy_update(m, update) ==
    [m EXCEPT !.data = [f \in Fields |-> IF f \in DOMAIN update THEN update[f] ELSE m.data[f]],
              !.fields_set = m.fields_set \cup DOMAIN update]

----------------------------------------------------------------------------
(* dict primitives on the registry. *)

EmptyDict == [k \in {} |-> None]
Has(reg, k) == k \in DOMAIN reg
Put(reg, k, v) == [x \in DOMAIN reg \cup {k} |-> IF x = k THEN v ELSE reg[x]]
Pop(reg, k) == [x \in DOMAIN reg \ {k} |-> reg[x]]

----------------------------------------------------------------------------
(* What a handler returns: a Response object, a plain value, or an         *)
(* exception.                                                              *)

Value(kind, body) == [isResponse |-> FALSE, raised |-> FALSE, kind |-> kind, body |-> body]

JSONResponse(content, status_code) ==
    [isResponse |-> TRUE, raised |-> FALSE, status_code |-> status_code,
     kind |-> "message", body |-> content]

\* Response(): starlette's defaults, status_code=200 and no content
Response ==
    [isResponse |-> TRUE, raised |-> FALSE, status_code |-> 200,
     kind |-> "empty", body |-> <<>>]

ValidationError == [isResponse |-> FALSE, raised |-> TRUE, kind |-> "error", body |-> <<>>]

Out(reg, ret, location) == [items |-> reg, ret |-> ret, location |-> location]

NoLocation == <<>>
BaseUrl == "http://testserver/"

----------------------------------------------------------------------------
(* The handlers. *)

get_items(reg) == Out(reg, Value("items", reg), NoLocation)

get_item(reg, item_id) ==
    Out(reg,
        IF Has(reg, item_id) THEN Value("item", reg[item_id]) ELSE Value("null", None),
        NoLocation)

\* create_item returning before the item is stored
create_item_not_stored(reg, item_id, item) ==
    IF Has(reg, item_id)
    THEN Out(reg,
             JSONResponse(<<"Item with id '", item_id, "' already exists.">>, 409),
             NoLocation)
    ELSE Out(reg, Value("item", item), <<BaseUrl, "items/", item_id>>)

\* create_item without the check for an existing id
create_item_unchecked(reg, item_id, item) ==
    Out(Put(reg, item_id, jsonable_encoder(item)),
        Value("item", item),
        <<BaseUrl, "items/", item_id>>)

\* `items.get(item_id) is not None`: a stored value is a dict, never None, so
\* the test is the key's presence.
create_item(reg, item_id, item) ==
    IF Has(reg, item_id)
    THEN Out(reg,
             JSONResponse(<<"Item with id '", item_id, "' already exists.">>, 409),
             NoLocation)
    ELSE Out(Put(reg, item_id, jsonable_encoder(item)),
             Value("item", item),
             <<BaseUrl, "items/", item_id>>)

\* delete_item looking the item up with get instead of pop
delete_item_get(reg, item_id) ==
    IF ~Has(reg, item_id)
    THEN Out(reg,
             JSONResponse(<<"No item with id '", item_id, "' found to delete.">>, 404),
             NoLocation)
    ELSE Out(reg, Response, NoLocation)

\* items.pop(item_id, None) comes first, the test of what it gave second.
delete_item(reg, item_id) ==
    IF ~Has(reg, item_id)
    THEN Out(Pop(reg, item_id),
             JSONResponse(<<"No item with id '", item_id, "' found to delete.">>, 404),
             NoLocation)
    ELSE Out(Pop(reg, item_id), Response, NoLocation)

\* update_item storing the payload whether or not the id exists
update_item_upsert(reg, item_id, item) ==
    Out(Put(reg, item_id, IF Has(reg, item_id) THEN jsonable_encoder(reg[item_id])
                          ELSE jsonable_encoder(item)),
        Response, NoLocation)

\* update_item encoding the payload instead of the stored record
update_item_applied(reg, item_id, item) ==
    IF ~Has(reg, item_id)
    THEN Out(reg,
             JSONResponse(<<"Item with id '", item_id, "' does not exist.">>, 404),
             NoLocation)
    ELSE Out(Put(reg, item_id, jsonable_encoder(item)), Response, NoLocation)

\* The parameter `item` is rebound to the stored record before it is used.
update_item(reg, item_id, item) ==
    IF ~Has(reg, item_id)
    THEN Out(reg,
             JSONResponse(<<"Item with id '", item_id, "' does not exist.">>, 404),
             NoLocation)
    ELSE LET stored == reg[item_id]
             update_item_encoded == jsonable_encoder(stored)
         IN  Out(Put(reg, item_id, update_item_encoded), Response, NoLocation)

\* Item(**item) validates the stored record and raises on a null field;
\* copy(update=...) validates nothing.
edit_item(reg, item_id, partial_item) ==
    IF ~Has(reg, item_id)
    THEN Out(reg,
             JSONResponse(<<"Item with id '", item_id, "' does not exist.">>, 404),
             NoLocation)
    ELSE IF ~ItemValid(reg[item_id])
    THEN Out(reg, ValidationError, NoLocation)
    ELSE LET item_model == Item(reg[item_id])
             update_data == dict_exclude_unset(partial_item)
             updated_item == copy_update(item_model, update_data)
         IN  Out(Put(reg, item_id, jsonable_encoder(updated_item)), Response, NoLocation)

----------------------------------------------------------------------------
(* The routes: the framework's part of a request. *)

\* status_code of the route decorator (200 when none is given)
RouteStatus(route) ==
    CASE route = "create_item" -> 201
      [] route \in {"delete_item", "update_item", "edit_item"} -> 204
      [] OTHER -> 200

\* response_model=Dict[str, Item] of get_items; the other routes declare none
ResponseModelOk(route, ret) ==
    route = "get_items" => \A k \in DOMAIN ret.body : ItemValid(ret.body[k])

\* A Response object a handler returns is sent as it is; any other value is
\* validated against the route's response_model, encoded and sent with the
\* route's status code; an exception or an invalid value is a 500.
Serve(route, item_id, out) ==
    LET ret == out.ret IN
    IF ret.raised \/ (~ret.isResponse /\ ~ResponseModelOk(route, ret))
    THEN [op |-> route, id |-> item_id, status |-> 500, kind |-> "error",
          body |-> <<>>, location |-> NoLocation]
    ELSE IF ret.isResponse
    THEN [op |-> route, id |-> item_id, status |-> ret.status_code, kind |-> ret.kind,
          body |-> ret.body, location |-> out.location]
    ELSE [op |-> route, id |-> item_id, status |-> RouteStatus(route), kind |-> ret.kind,
          body |-> IF ret.kind = "items"
                   THEN [k \in DOMAIN ret.body |-> jsonable_encoder(Item(ret.body[k]))]
                   ELSE IF ret.kind = "item" THEN jsonable_encoder(ret.body)
                   ELSE ret.body,
          location |-> out.location]

NoId == ""

IsSuccess(resp) == resp.status \in 200..299

\* The history of successful creates and deletes, read off the responses.
Live(resp) ==
    IF resp.op = "create_item" /\ IsSuccess(resp) THEN live \cup {resp.id}
    ELSE IF resp.op = "delete_item" /\ IsSuccess(resp) THEN live \ {resp.id}
    ELSE live

Handle(route, item_id, out) ==
    /\ items' = out.items
    /\ last' = Serve(route, item_id, out)
    /\ live' = Live(Serve(route, item_id, out))
    /\ UNCHANGED <<arrived, start, handled>>

GetItems == Handle("get_items", NoId, get_items(items))

GetItem(item_id) == Handle("get_item", item_id, get_item(items, item_id))

PostItem(item_id, body) ==
    Handle("create_item", item_id, create_item(items, item_id, Item(body)))

DeleteItem(item_id) == Handle("delete_item", item_id, delete_item(items, item_id))

PutItem(item_id, body) ==
    Handle("update_item", item_id, update_item(items, item_id, Item(body)))

PatchItem(item_id, body) ==
    Handle("edit_item", item_id, edit_item(items, item_id, PartialItem(body)))

NoRequest ==
    [op |-> "none", id |-> NoId, status |-> 0, kind |-> "empty", body |-> <<>>,
     location |-> NoLocation]

Init ==
    /\ items = EmptyDict
    /\ last = NoRequest
    /\ live = {}
    /\ arrived = EmptyDict
    /\ start = EmptyDict
    /\ handled = <<>>

Next ==
    \/ GetItems
    \/ \E item_id \in Ids : GetItem(item_id)
    \/ \E item_id \in Ids, body \in ItemBodies : PostItem(item_id, body)
    \/ \E item_id \in Ids : DeleteItem(item_id)
    \/ \E item_id \in Ids, body \in ItemBodies : PutItem(item_id, body)
    \/ \E item_id \in Ids, body \in PartialItemBodies : PatchItem(item_id, body)

Spec == Init /\ [][Next]_vars

----------------------------------------------------------------------------
(* Overlapping requests.  The framework reads and validates a request's    *)
(* body before it calls the handler, and other requests may be served in   *)
(* between; a handler itself holds no await, so it runs from its first     *)
(* line to its return in one step of the event loop.                       *)

Clients == 1..NumClients
ConcIds == {"soda"}
SinglePatches == {d \in PartialItemBodies : Cardinality(DOMAIN d) = 1}

Request(op, item_id, body) == [op |-> op, id |-> item_id, body |-> body]

RunHandler(reg, req) ==
    CASE req.op = "create_item" -> create_item(reg, req.id, Item(req.body))
      [] req.op = "edit_item" -> edit_item(reg, req.id, PartialItem(req.body))
      [] req.op = "delete_item" -> delete_item(reg, req.id)

HandledClients == {handled[i].client : i \in 1..Len(handled)}

Accept(c, req) ==
    /\ c \notin DOMAIN arrived
    /\ c \notin HandledClients
    /\ arrived' = Put(arrived, c, req)
    /\ start' = IF DOMAIN arrived = {} /\ handled = <<>> THEN items ELSE start
    /\ UNCHANGED <<items, last, live, handled>>

AcceptPost(c, item_id, body) == Accept(c, Request("create_item", item_id, body))

AcceptPatch(c, item_id, body) == Accept(c, Request("edit_item", item_id, body))

AcceptDelete(c, item_id) == Accept(c, Request("delete_item", item_id, EmptyDict))

RunClient(c) ==
    /\ c \in DOMAIN arrived
    /\ LET req == arrived[c]
           out == RunHandler(items, req)
           resp == Serve(req.op, req.id, out)
       IN  /\ items' = out.items
           /\ live' = Live(resp)
           /\ handled' = Append(handled, [client |-> c, req |-> req, resp |-> resp])
    /\ arrived' = Pop(arrived, c)
    /\ UNCHANGED <<last, start>>

\* Every response has been sent: the next requests overlap afresh.
Settle ==
    /\ Len(handled) = NumClients
    /\ handled' = <<>>
    /\ start' = EmptyDict
    /\ UNCHANGED <<items, last, live, arrived>>

NextConc ==
    \/ \E c \in Clients, item_id \in ConcIds, body \in ItemBodies : AcceptPost(c, item_id, body)
    \/ \E c \in Clients, item_id \in ConcIds, body \in SinglePatches : AcceptPatch(c, item_id, body)
    \/ \E c \in Clients, item_id \in ConcIds : AcceptDelete(c, item_id)
    \/ \E c \in Clients : RunClient(c)
    \/ Settle

SpecConc == Init /\ [][NextConc]_vars

----------------------------------------------------------------------------
(* Properties. *)

\* The entries of every id other than item_id are the same before and after.
OthersUnchanged(item_id) ==
    /\ DOMAIN items' \ {item_id} = DOMAIN items \ {item_id}
    /\ \A k \in DOMAIN items \ {item_id} : items'[k] = items[k]

RegistryUnchanged ==
    /\ DOMAIN items' = DOMAIN items
    /\ \A k \in DOMAIN items : items'[k] = items[k]

\* C1: a create on an absent id answers 201 with the item as its body, adds
\* exactly the entry id -> item, and a get of that id issued next answers with
\* an item whose four fields are those of the submitted item.
C1_CreateThenGet ==
    [][ /\ (last'.op = "create_item" /\ ~Has(items, last'.id)) =>
             \A body \in ItemBodies :
                 PostItem(last'.id, body) =>
                     /\ last'.status = 201
                     /\ last'.kind = "item"
                     /\ \A f \in Fields : last'.body[f] = body[f]
                     /\ Has(items', last'.id)
                     /\ \A f \in Fields : items'[last'.id][f] = body[f]
                     /\ OthersUnchanged(last'.id)
        /\ (last.op = "create_item" /\ last.status = 201
                /\ last'.op = "get_item" /\ last'.id = last.id /\ GetItem(last.id)) =>
             /\ last'.status = 200
             /\ last'.kind = "item"
             /\ \A f \in Fields : last'.body[f] = last.body[f]
      ]_vars

C1_Created ==
    /\ last.op = "create_item"
    /\ last.status = 201
    /\ Has(items, last.id)
    /\ \A f \in Fields : items[last.id][f] = last.body[f]

\* C2: a create on a present id answers 409 with a message naming the id,
\* whatever the payload, and leaves the whole registry as it was.
C2_CreateConflict ==
    [][ (last'.op = "create_item" /\ Has(items, last'.id)) =>
            \A body \in ItemBodies :
                PostItem(last'.id, body) =>
                    /\ last'.status = 409
                    /\ last'.kind = "message"
                    /\ last'.body = <<"Item with id '", last'.id, "' already exists.">>
                    /\ RegistryUnchanged
      ]_vars

C2_Conflicted ==
    /\ last.op = "create_item"
    /\ last.status = 409
    /\ Has(items, last.id)

\* C3: a delete of a present id removes exactly that entry and is no error; a
\* get of the id issued next answers null, and a delete of it issued next
\* answers 404; a delete of an absent id answers 404.
C3_DeleteThenAbsent ==
    [][ /\ (last'.op = "delete_item" /\ Has(items, last'.id) /\ DeleteItem(last'.id)) =>
             /\ IsSuccess(last')
             /\ ~Has(items', last'.id)
             /\ OthersUnchanged(last'.id)
        /\ (last'.op = "delete_item" /\ ~Has(items, last'.id) /\ DeleteItem(last'.id)) =>
             last'.status = 404
        /\ (last.op = "delete_item" /\ IsSuccess(last)
                /\ last'.op = "get_item" /\ last'.id = last.id /\ GetItem(last.id)) =>
             /\ last'.status = 200
             /\ last'.kind = "null"
        /\ (last.op = "delete_item" /\ IsSuccess(last)
                /\ last'.op = "delete_item" /\ last'.id = last.id /\ DeleteItem(last.id)) =>
             last'.status = 404
      ]_vars

C3_Deleted ==
    /\ last.op = "delete_item"
    /\ IsSuccess(last)
    /\ ~Has(items, last.id)
    /\ items # EmptyDict

\* C4: a patch of a present id overwrites exactly the fields given in the
\* patch with the patch's values, keeps the other fields, and leaves the
\* entries of the other ids alone.
C4_PatchOverwritesGiven ==
    [][ (last'.op = "edit_item" /\ Has(items, last'.id)) =>
            \A body \in PartialItemBodies :
                PatchItem(last'.id, body) =>
                    /\ Has(items', last'.id)
                    /\ \A f \in DOMAIN body : items'[last'.id][f] = body[f]
                    /\ \A f \in Fields \ DOMAIN body :
                           items'[last'.id][f] = items[last'.id][f]
                    /\ OthersUnchanged(last'.id)
      ]_vars

\* C5: a patch, a replace and a delete of an absent id each answer 404 with a
\* message body and leave the whole registry as it was.
C5_AbsentNotFound ==
    [][ (last'.op \in {"edit_item", "update_item", "delete_item"} /\ ~Has(items, last'.id)) =>
            /\ last'.status = 404
            /\ last'.kind = "message"
            /\ RegistryUnchanged
            /\ ~Has(items', last'.id)
      ]_vars

C5_NotFound ==
    /\ last.op \in {"edit_item", "update_item", "delete_item"}
    /\ last.status = 404
    /\ ~Has(items, last.id)
    /\ items # EmptyDict

C7_NoContent ==
    (last.op \in {"update_item", "edit_item", "delete_item"} /\ IsSuccess(last)) =>
        (last.status = 204 /\ last.kind = "empty")

\* C8: a list never fails, changes nothing, and answers with exactly the ids
\* created and not deleted since, each with its stored record.
C8_ListExactlyLive ==
    [][ (last'.op = "get_items" /\ GetItems) =>
            /\ last'.status = 200
            /\ last'.kind = "items"
            /\ RegistryUnchanged
            /\ DOMAIN last'.body = live'
            /\ \A k \in live' : last'.body[k] = items'[k]
      ]_vars

\* Overlapping requests: what was asked and answered, and the serial runs to
\* compare with.
RoundDone == Len(handled) = NumClients

ReqOf(c) == (CHOOSE h \in {handled[i] : i \in 1..Len(handled)} : h.client = c).req
RespOf(c) == (CHOOSE h \in {handled[i] : i \in 1..Len(handled)} : h.client = c).resp

SameResponse(a, b) ==
    /\ a.status = b.status
    /\ a.kind = b.kind
    /\ a.body = b.body
    /\ a.location = b.location

RECURSIVE SerialRun(_, _)
SerialRun(reg, order) ==
    IF order = <<>> THEN [items |-> reg, resps |-> <<>>]
    ELSE LET req == ReqOf(Head(order))
             out == RunHandler(reg, req)
             rest == SerialRun(out.items, Tail(order))
         IN  [items |-> rest.items,
              resps |-> <<[client |-> Head(order), resp |-> Serve(req.op, req.id, out)]>>
                        \o rest.resps]

Orders == {o \in [1..NumClients -> Clients] : \A i, j \in 1..NumClients : o[i] = o[j] => i = j}

Serializable ==
    \E o \in Orders :
        LET run == SerialRun(start, o) IN
        /\ DOMAIN run.items = DOMAIN items
        /\ \A k \in DOMAIN items : run.items[k] = items[k]
        /\ \A i \in 1..Len(run.resps) : SameResponse(run.resps[i].resp, RespOf(run.resps[i].client))

CreatedOnce ==
    \A c, d \in Clients :
        (c # d /\ ReqOf(c).op = "create_item" /\ ReqOf(d).op = "create_item"
            /\ ReqOf(c).id = ReqOf(d).id /\ ~Has(start, ReqOf(c).id)) =>
            {RespOf(c).status, RespOf(d).status} = {201, 409}

BothPatchesApplied ==
    \A c, d \in Clients :
        (c # d /\ ReqOf(c).op = "edit_item" /\ ReqOf(d).op = "edit_item"
            /\ ReqOf(c).id = ReqOf(d).id /\ Has(start, ReqOf(c).id)
            /\ DOMAIN ReqOf(c).body \cap DOMAIN ReqOf(d).body = {}) =>
            /\ IsSuccess(RespOf(c))
            /\ IsSuccess(RespOf(d))
            /\ \A f \in DOMAIN ReqOf(c).body : items[ReqOf(c).id][f] = ReqOf(c).body[f]
            /\ \A f \in DOMAIN ReqOf(d).body : items[ReqOf(d).id][f] = ReqOf(d).body[f]

\* C9: overlapping requests end as some serial order of them would; two
\* creates of one absent id give one 201 and one 409; two patches of disjoint
\* fields of one present id both take effect.
C9_OverlappingAsSerial ==
    RoundDone => (Serializable /\ CreatedOnce /\ BothPatchesApplied)

\* C10: every stored record has its four fields set to non-null values of
\* their types, so no patch and no list answers 500.
C10_StoredWellFormed ==
    /\ \A k \in DOMAIN items : ItemValid(items[k])
    /\ last.op \in {"edit_item", "get_items"} => last.status # 500

====
